---- MODULE Spec2Model ----
(***************************************************************************)
(* Model of the gmail-handler Cloud Function: HandleEmail (function.go),   *)
(* initGmailService and its global client handle, the reuse layer that     *)
(* oauth2.ReuseTokenSource puts in front of KeylessTokenSource.Token       *)
(* (pkg/auth), and the calls to the IAM signing API, the OAuth token       *)
(* endpoint and the Gmail send / modify API.                               *)
(*                                                                         *)
(* Each slot r is a goroutine of the HTTP server running HandleEmail for    *)
(* one request; a slot whose request has been answered takes the next      *)
(* request.  Several slots may be busy at the same time.                   *)
(* Time is counted in seconds.                                             *)
(***************************************************************************)
EXTENDS Integers, Sequences, FiniteSets, TLC

VARIABLES
    env,          \* environment variables of the process (os.Getenv)
    client,       \* what the outside client will still post
    now,          \* wall clock, seconds (time.Now)
    gmailService, \* the global client handle; 0 is nil, else the id of a service
    services,     \* ids of the gmail.Service objects created so far
    cache,        \* per service: the token held by its reuseTokenSource (<<>> is nil)
    lock,         \* per service: the request holding reuseTokenSource.mu, 0 if free
    pc,           \* per request: position in HandleEmail
    payload,      \* per request: the decoded email.Request
    svc,          \* per request: the handle value read for the API call in progress
    sentMsg,      \* per request: the id returned by Messages.Send ("" before)
    labelsToAdd,  \* per request: the label list computed after the send
    resp,         \* per request: the HTTP response written
    calls,        \* per request: external calls issued so far
    fault,        \* per request: errors its collaborators returned to the handler
    lastExch,     \* per service: the token endpoint's latest answer and its time
    contended,    \* per request: its credential demand met a Token() call in progress
    epoch,        \* per service: signing calls and failures since the cache was last stored
    carried,      \* per request: the token its latest credential demand returned
    jwt,          \* per request: the claim set of its latest signing call
    modifyReq,    \* per request: the arguments of its Messages.Modify call
    mime          \* the builder examined alone: a request and what BuildMime returned for it

vars == <<env, client, now, gmailService, services, cache, lock, pc, payload,
          svc, sentMsg, labelsToAdd, resp, calls, fault, lastExch, contended, epoch,
          carried, jwt, modifyReq, mime>>

\* everything but the builder examined alone
handlerVars ==
    <<env, client, now, gmailService, services, cache, lock, pc, payload,
      svc, sentMsg, labelsToAdd, resp, calls, fault, lastExch, contended, epoch,
      carried, jwt, modifyReq>>

----------------------------------------------------------------------------
(* Bounds *)

NumReqs == 2      \* request slots: requests in flight at the same time
MaxPosts == 2     \* requests posted in a run
MaxTime == 1      \* the clock stops here
MaxAtt == 2      \* attachments per request
MaxBuilds == 2    \* builds of one request

(* Program constants *)

MaxTotalSizeMB == 20
ExpiryDelta    == 10      \* oauth2: a token counts as expired 10 s early

StatusOK                  == 200
StatusBadRequest          == 400
StatusInternalServerError == 500
StatusBadGateway          == 502

JwtLifetime    == 3600    \* dwd.go:41

OAuth2TokenURL   == "https://oauth2.googleapis.com/token"
GmailSendScope   == "https://www.googleapis.com/auth/gmail.send"
GmailModifyScope == "https://www.googleapis.com/auth/gmail.modify"

LabelStarred   == "STARRED"

HeaderFrom        == "From"
HeaderTo          == "To"
HeaderCC          == "Cc"
HeaderBCC         == "Bcc"
HeaderReplyTo     == "Reply-To"
HeaderSubject     == "Subject"
HeaderMIMEVersion == "MIME-Version"
HeaderDisposition == "Content-Disposition"
HeaderTransferEnc == "Content-Transfer-Encoding"
HeaderContentType == "Content-Type"
HeaderReceipt     == "Disposition-Notification-To"

MimeMultipartMixed    == "multipart/mixed"
MimeTextHTML          == "text/html"
CharsetUTF8           == "charset=UTF-8"
EncodingBase64        == "base64"
MimeVer1              == "1.0"
DispositionAttachment == "attachment"
LabelImportant == "IMPORTANT"

----------------------------------------------------------------------------
(* Values *)

Reqs == 1..NumReqs

Admin == "admin@corp"
Alias == "noreply@corp"
Other == "user@ext"
RobotSA == "robot@iam"

Addrs == {Admin, Alias, Other}

EnvConfigs ==
    [delegatedUser : {"", Admin}, aliasEmail : {Alias}, functionSA : {"", RobotSA}]

NoOptions == [Starred |-> FALSE, Important |-> FALSE, LabelIDs |-> <<>>]

\* lengths of content_b64 strings; two of 13946061 and 1 + 27892121 are the
\* smallest totals above the limit, 27892121 the largest one below it
AttLens == {1, 13946061, 27892121}

SeqsUpTo(S, n) == UNION {[1..k -> S] : k \in 0..n}

\* options: every combination of the two flags with no, one and two label ids
LabelIDLists == {<<>>, <<"Label_1">>, <<"Label_2", "Label_1">>}

OptionSets == [Starred : BOOLEAN, Important : BOOLEAN, LabelIDs : LabelIDLists]

\* the requests a client posts while the validation rules are examined, and
\* the requests that differ in their options only
RichPayloads ==
    [jsonOk : {TRUE}, Recipient : Addrs,
     CC : {<<>>, <<Admin>>}, BCC : {<<>>, <<Alias>>},
     Attachments : SeqsUpTo(AttLens, MaxAtt),
     Options : {NoOptions, [NoOptions EXCEPT !.Starred = TRUE]}]
    \cup
    [jsonOk : {TRUE}, Recipient : {Other}, CC : {<<>>}, BCC : {<<>>},
     Attachments : {<<>>}, Options : OptionSets]
    \cup
    [jsonOk : {FALSE}, Recipient : Addrs, CC : {<<>>}, BCC : {<<>>},
     Attachments : {<<>>}, Options : {NoOptions}]

\* the requests a client posts concurrently: without and with a label, and one
\* for each validation rule
ConcPayloads ==
    [jsonOk : {TRUE}, Recipient : {Other}, CC : {<<>>}, BCC : {<<>>},
     Attachments : {<<>>},
     Options : {NoOptions, [NoOptions EXCEPT !.Starred = TRUE]}]
    \cup
    {[jsonOk |-> FALSE, Recipient |-> Other, CC |-> <<>>, BCC |-> <<>>,
      Attachments |-> <<>>, Options |-> NoOptions],
     [jsonOk |-> TRUE, Recipient |-> Admin, CC |-> <<>>, BCC |-> <<>>,
      Attachments |-> <<>>, Options |-> NoOptions],
     [jsonOk |-> TRUE, Recipient |-> Other, CC |-> <<>>, BCC |-> <<>>,
      Attachments |-> <<27892121, 1>>, Options |-> NoOptions]}

PayloadsOf(kind) == IF kind = "rich" THEN RichPayloads ELSE ConcPayloads

NoPayload ==
    [jsonOk |-> FALSE, Recipient |-> "", CC |-> <<>>, BCC |-> <<>>,
     Attachments |-> <<>>, Options |-> NoOptions]

MsgIds == {"m1", "m2"}

NoResp == [code |-> 0, body |-> <<>>]

\* sign, signOk, exch, send, modify: calls of the request so far; tsign,
\* texch: signing and exchange calls of its current (or latest) Token() call;
\* init, build: its calls of initGmailService and of BuildMime
NoCalls ==
    [sign |-> 0, signOk |-> 0, exch |-> 0, send |-> 0, modify |-> 0,
     tsign |-> 0, texch |-> 0, init |-> 0, build |-> 0]

NoEpoch == [signs |-> 0, fails |-> 0]

\* token: <<>> or the one token handed to the API call; fresh: Token() was
\* called for it by this demand
NoCredential == [token |-> <<>>, fresh |-> FALSE]

\* the message id and the ModifyMessageRequest of a Messages.Modify call
NoModify == [id |-> "", AddLabelIds |-> <<>>]

NoClaims == [iss |-> "", sub |-> "", scope |-> <<>>, aud |-> "", iat |-> 0, exp |-> 0]

\* build: BuildMime failed; token: the API call ("send", "label") whose Token()
\* failed; modify: Messages.Modify returned an error
NoFault == [build |-> FALSE, token |-> "none", modify |-> FALSE]

\* what the token endpoint may answer: no answer, a status other than 200, a
\* 200 with a body that is not JSON, a 200 with a JSON body; a JSON body may
\* lack access_token, token_type or expires_in, which then decode to "", ""
\* and 0; a token
\* with expires_in = ExpiryDelta is valid during the second it is issued in
ExchangeResponses ==
    [kind : {"transport", "status500", "undecodable"},
     access_token : {""}, token_type : {""}, expires_in : {0}]
    \cup
    {[kind |-> "ok", access_token |-> "ya29", token_type |-> "Bearer",
      expires_in |-> ExpiryDelta],
     [kind |-> "ok", access_token |-> "ya29", token_type |-> "",
      expires_in |-> 0],
     [kind |-> "ok", access_token |-> "", token_type |-> "Bearer",
      expires_in |-> ExpiryDelta]}

NoAnswer ==
    [answer |-> [kind |-> "none", access_token |-> "", token_type |-> "",
                 expires_in |-> 0],
     at |-> 0]

----------------------------------------------------------------------------
(* Pure helpers *)

RECURSIVE SumSeq(_)
SumSeq(s) == IF s = <<>> THEN 0 ELSE Head(s) + SumSeq(Tail(s))

Range(s) == {s[i] : i \in 1..Len(s)}

\* the check with the alias comparison left out
LoopBlockedDelegatedOnly(p, e) == p.Recipient = e.delegatedUser

\* function.go:100
LoopBlocked(p, e) == p.Recipient = e.delegatedUser \/ p.Recipient = e.aliasEmail

\* function.go:110-113
TotalSize(p) == SumSeq(p.Attachments)

\* the limit without the 1.33 encoding allowance
SizeExceededNoAllowance(total) == total * 25 > MaxTotalSizeMB * 1024 * 256 * 100

\* function.go:115  float64(totalSize) > float64(MaxTotalSizeMB)*1024*1024*1.33
\* with 1.33 = 133/100 and both sides multiplied by 25
SizeExceeded(total) == total * 25 > MaxTotalSizeMB * 1024 * 256 * 133

\* a label computation that puts the flags before the label ids of the request
LabelListFlagsFirst(o) ==
    (IF o.Starred THEN <<LabelStarred>> ELSE <<>>)
      \o (IF o.Important THEN <<LabelImportant>> ELSE <<>>)
      \o o.LabelIDs

\* function.go:155-165
LabelList(o) ==
    o.LabelIDs
      \o (IF o.Starred THEN <<LabelStarred>> ELSE <<>>)
      \o (IF o.Important THEN <<LabelImportant>> ELSE <<>>)

\* a validity test that does not look at the expiry
TokenValidNoExpiry(c, t) == c # <<>> /\ c[1].AccessToken # ""

\* oauth2 Token.Valid as used by the reuseTokenSource made at function.go:72
TokenValid(c, t) ==
    /\ c # <<>>
    /\ c[1].AccessToken # ""
    /\ ~(c[1].Expiry - ExpiryDelta < t)

\* function.go:64-69: the token source initGmailService builds from the environment
TokenSource(e) ==
    [ServiceAccountEmail |-> e.functionSA,
     DelegateEmail |-> e.delegatedUser,
     Scopes |-> <<GmailSendScope, GmailModifyScope>>]

\* a claim set that names the robot itself as the subject
ClaimSetNoDelegation(k, t) ==
    [iss |-> k.ServiceAccountEmail, sub |-> k.ServiceAccountEmail,
     scope |-> k.Scopes, aud |-> OAuth2TokenURL, iat |-> t, exp |-> t + JwtLifetime]

\* dwd.go:40-50
ClaimSet(k, t) ==
    [iss |-> k.ServiceAccountEmail, sub |-> k.DelegateEmail,
     scope |-> k.Scopes, aud |-> OAuth2TokenURL, iat |-> t, exp |-> t + JwtLifetime]

\* a Token() that also refuses an answer without an access token
ExchangeFailsOnEmptyToken(x) == x.kind # "ok" \/ x.access_token = ""

\* Token() without the status check and with the decode error ignored
ExchangeFailsTransportOnly(x) == x.kind = "transport"

\* dwd.go:76-94: which answers of the token endpoint make Token() return an error
ExchangeFails(x) == x.kind # "ok"

\* a token whose expiry is the lifetime itself, not a point in time
TokenOfRelativeExpiry(x, t) ==
    [AccessToken |-> x.access_token, TokenType |-> x.token_type,
     Expiry |-> x.expires_in]

\* dwd.go:97-101
TokenOf(x, t) ==
    [AccessToken |-> x.access_token, TokenType |-> x.token_type,
     Expiry |-> t + x.expires_in]

\* an append that writes the flags' labels through to the slice of the request
RequestAfterLabelsAliased(p, labels) == [p EXCEPT !.Options.LabelIDs = labels]

\* function.go:155-165: the request after the label computation.  labelsToAdd
\* shares the backing array of req.Options.LabelIDs, and append writes at
\* index len or beyond, or into a new array: the elements and the length of
\* req.Options.LabelIDs stay as they were
RequestAfterLabels(p, labels) == p

\* a success response that names the same message whatever was sent
SentResponseFixedId(id, lerr) == [code |-> StatusOK, body |-> <<"sent", "m1">>]

\* a success response that tells whether the labels were applied
SentResponseWithLabelStatus(id, lerr) ==
    [code |-> StatusOK,
     body |-> <<"sent", id, IF lerr THEN "labels failed" ELSE "labels ok">>]

\* function.go:184-186
SentResponse(id, lerr) == [code |-> StatusOK, body |-> <<"sent", id>>]

ErrorResponse(code, text) == [code |-> code, body |-> <<text>>]

----------------------------------------------------------------------------
(* pkg/email: BuildMime.  A Go string is a sequence of pieces of text; the   *)
(* line-break characters are pieces of their own.                          *)

CR == "<CR>"
LF == "<LF>"
CRLF == <<CR, LF>>

\* strings.Join
RECURSIVE Join(_, _)
Join(strs, sep) ==
    IF strs = <<>> THEN <<>>
    ELSE IF Len(strs) = 1 THEN strs[1]
    ELSE strs[1] \o sep \o Join(Tail(strs), sep)

IsNotLF(a) == a # LF

\* builder.go:142  strings.ReplaceAll(att.ContentB64, "\n", "")
StripNewlines(str) == SelectSeq(str, IsNotLF)

\* pieces of markup that the UGC policy of bluemonday does not let through
UnsafeHTML == {"<script>alert(1)</script>"}

IsSafeHTML(a) == a \notin UnsafeHTML

\* a builder that writes the body as it was posted
SanitizeNothing(html) == html

\* builder.go:61-62
Sanitize(html) == SelectSeq(html, IsSafeHTML)

\* builder.go:69-74
formatAddr(header, value) ==
    IF value = <<>> THEN <<>> ELSE <<header, ": ">> \o value \o CRLF

\* builder.go:77-80
FromHeader(req) ==
    IF req.SenderName # <<>>
    THEN <<HeaderFrom, ": ", "\"">> \o req.SenderName \o <<"\" <me>">> \o CRLF
    ELSE <<HeaderFrom, ": ", "me">> \o CRLF

\* builder.go:112-114: the entries of the map in the order the iteration yields
RECURSIVE CustomHeaderLines(_, _)
CustomHeaderLines(m, order) ==
    IF order = <<>> THEN <<>>
    ELSE formatAddr(Head(order), m[Head(order)])
           \o CustomHeaderLines(m, Tail(order))

\* builder.go:82-116
HeaderBlock(req, boundary, order) ==
    FromHeader(req)
      \o formatAddr(HeaderTo, req.Recipient)
      \o (IF Len(req.CC) > 0
          THEN formatAddr(HeaderCC, Join(req.CC, <<", ">>)) ELSE <<>>)
      \o (IF Len(req.BCC) > 0
          THEN formatAddr(HeaderBCC, Join(req.BCC, <<", ">>)) ELSE <<>>)
      \o (IF req.ReplyTo # <<>>
          THEN formatAddr(HeaderReplyTo, req.ReplyTo) ELSE <<>>)
      \o formatAddr(HeaderSubject, req.Subject)
      \o <<HeaderMIMEVersion, ": ", MimeVer1>> \o CRLF
      \o <<HeaderContentType, ": ", MimeMultipartMixed, "; boundary=", boundary>>
      \o CRLF
      \o (IF req.Options.ReadReceipt
          THEN <<HeaderReceipt, ": ", "me">> \o CRLF ELSE <<>>)
      \o CustomHeaderLines(req.CustomHeaders, order)
      \o CRLF

\* multipart.Writer.CreatePart writes the part's headers sorted by key
SortedPartKeys == <<HeaderDisposition, HeaderTransferEnc, HeaderContentType>>

RECURSIVE PartHeaderLines(_, _)
PartHeaderLines(h, keys) ==
    IF keys = <<>> THEN <<>>
    ELSE (IF Head(keys) \in DOMAIN h
          THEN <<Head(keys), ": ">> \o h[Head(keys)] \o CRLF ELSE <<>>)
           \o PartHeaderLines(h, Tail(keys))

\* multipart.Writer.CreatePart: the delimiter, the headers, a blank line
CreatePart(boundary, first, h) ==
    (IF first THEN <<>> ELSE CRLF) \o <<"--", boundary>> \o CRLF
      \o PartHeaderLines(h, SortedPartKeys) \o CRLF

\* multipart.Writer.Close
CloseWriter(boundary) == CRLF \o <<"--", boundary, "--">> \o CRLF

\* a body part that declares a disposition
BodyPartWithDisposition(req, boundary) ==
    CreatePart(boundary, TRUE,
               [k \in {HeaderContentType, HeaderDisposition} |->
                   IF k = HeaderContentType
                   THEN <<MimeTextHTML, "; ", CharsetUTF8>> ELSE <<"inline">>])
      \o Sanitize(req.BodyHTML)

\* builder.go:119-127
BodyPart(req, boundary) ==
    CreatePart(boundary, TRUE,
               [k \in {HeaderContentType} |-> <<MimeTextHTML, "; ", CharsetUTF8>>])
      \o Sanitize(req.BodyHTML)

\* builder.go:131-136
AttachmentHeader(att) ==
    [k \in {HeaderContentType, HeaderTransferEnc, HeaderDisposition} |->
        IF k = HeaderContentType THEN att.MimeType
        ELSE IF k = HeaderTransferEnc THEN <<EncodingBase64>>
        ELSE <<DispositionAttachment, "; filename=\"">> \o att.Filename \o <<"\"">>]

\* a loop that writes the attachments last to first
RECURSIVE AttachmentPartsReversed(_, _)
AttachmentPartsReversed(atts, boundary) ==
    IF atts = <<>> THEN <<>>
    ELSE AttachmentPartsReversed(Tail(atts), boundary)
           \o CreatePart(boundary, FALSE, AttachmentHeader(Head(atts)))
           \o StripNewlines(Head(atts).ContentB64)

\* builder.go:130-144
RECURSIVE AttachmentParts(_, _)
AttachmentParts(atts, boundary) ==
    IF atts = <<>> THEN <<>>
    ELSE CreatePart(boundary, FALSE, AttachmentHeader(Head(atts)))
           \o StripNewlines(Head(atts).ContentB64)
           \o AttachmentParts(Tail(atts), boundary)

\* builder.go:59-151; boundary is the token multipart.NewWriter draws at random,
\* order the order in which the range over the CustomHeaders map yields its keys
BuildMime(req, boundary, order) ==
    HeaderBlock(req, boundary, order)
      \o BodyPart(req, boundary)
      \o AttachmentParts(req.Attachments, boundary)
      \o CloseWriter(boundary)

\* custom header maps: none, one entry, an entry with an empty value, two
\* entries, an entry named like a header the builder writes itself
NoHeaders == [k \in {} |-> <<>>]

CustomHeaderMaps ==
    {NoHeaders,
     [k \in {"X-Campaign"} |-> <<"c1">>],
     [k \in {"X-Empty"} |-> <<>>],
     [k \in {"List-Unsubscribe", "X-Campaign"} |->
         IF k = "X-Campaign" THEN <<"c1">> ELSE <<"<mailto:u@b.com>">>],
     [k \in {HeaderDisposition} |-> <<"inline">>]}

\* attachments whose content has no line break, LF line breaks, CRLF line breaks
AttPool ==
    {[Filename |-> <<"a.pdf">>, MimeType |-> <<"application/pdf">>,
      ContentB64 |-> <<"QUJD", "REVG">>],
     [Filename |-> <<"b.png">>, MimeType |-> <<"image/png">>,
      ContentB64 |-> <<"QUJD", LF, "REVG", LF>>],
     [Filename |-> <<"c.txt">>, MimeType |-> <<>>,
      ContentB64 |-> <<"QUJD", CR, LF, "REVG">>]}

HTMLBodies ==
    {<<>>, <<"<p>ok</p>">>, <<"<p>ok</p>", "<script>alert(1)</script>">>,
     <<"<script>alert(1)</script>", "<p>ok</p>", "<script>alert(1)</script>">>}

BaseRequest ==
    [SenderName |-> <<>>, Recipient |-> <<"a@b.com">>, CC |-> <<>>, BCC |-> <<>>,
     ReplyTo |-> <<>>, Subject |-> <<"Hi">>, BodyHTML |-> <<"<p>ok</p>">>,
     Options |-> [ReadReceipt |-> FALSE], Attachments |-> <<>>,
     CustomHeaders |-> NoHeaders]

\* requests that differ in the fields the header block is made of
HeaderRequests ==
    [SenderName : {<<>>, <<"Ann">>}, Recipient : {<<>>, <<"a@b.com">>},
     CC : {<<>>, <<<<"c@b.com">>>>, <<<<"c@b.com">>, <<"d@b.com">>>>},
     BCC : {<<>>, <<<<"e@b.com">>>>},
     ReplyTo : {<<>>, <<"r@b.com">>}, Subject : {<<>>, <<"Hi">>},
     BodyHTML : {<<"<p>ok</p>">>}, Options : [ReadReceipt : BOOLEAN],
     Attachments : {<<>>},
     CustomHeaders : {NoHeaders, [k \in {"X-Campaign"} |-> <<"c1">>]}]

\* requests that differ in body, attachments and custom headers
PartRequests ==
    [SenderName : {<<>>}, Recipient : {<<"a@b.com">>}, CC : {<<>>}, BCC : {<<>>},
     ReplyTo : {<<>>}, Subject : {<<"Hi">>},
     BodyHTML : HTMLBodies, Options : [ReadReceipt : {FALSE}],
     Attachments : SeqsUpTo(AttPool, MaxAtt),
     CustomHeaders : CustomHeaderMaps]

BuildRequests == HeaderRequests \cup PartRequests

NoMime == [req |-> BaseRequest, outs |-> <<>>]

\* the boundary tokens multipart.NewWriter may draw
Boundaries == {"b0f3", "7c1e"}

\* the orders in which a range over map m may yield its keys
Orders(m) ==
    {o \in [1..Cardinality(DOMAIN m) -> DOMAIN m] :
        \A i, j \in DOMAIN o : o[i] = o[j] => i = j}

----------------------------------------------------------------------------
(* Positions in HandleEmail *)

SendPcs  == {"sendTok", "sendSign", "sendExch", "sendCall"}
LabelPcs == {"labelTok", "labelSign", "labelExch", "labelCall"}

TokPcs  == {"sendTok", "labelTok"}      \* about to ask the token source
SignPcs == {"sendSign", "labelSign"}    \* inside Token(), before SignJwt
ExchPcs == {"sendExch", "labelExch"}    \* inside Token(), before the POST

Phase(p) == IF p \in SendPcs THEN "send" ELSE "label"

PcSign(ph) == IF ph = "send" THEN "sendSign" ELSE "labelSign"
PcExch(ph) == IF ph = "send" THEN "sendExch" ELSE "labelExch"
PcCall(ph) == IF ph = "send" THEN "sendCall" ELSE "labelCall"

\* the slot has no request in hand
Free(r) == pc[r] \in {"idle", "done"}

\* a reuse layer without its mutex
MutexFreeAlways(s) == TRUE

\* reuseTokenSource.Token: the mutex must be free to enter
MutexFree(s) == lock[s] = 0

\* a token source that is not wrapped in the reuse layer
NeedsRefreshAlways(s) == TRUE

\* reuseTokenSource.Token: the new token is fetched only when the held one is not valid
NeedsRefresh(s) == ~TokenValid(cache[s], now)

\* Token() with the SignJwt error ignored
SignProceedsAlways(ok) == TRUE

\* dwd.go:64-67: Token() goes on to the exchange only when SignJwt returned no error
SignProceeds(ok) == ok

\* a handler that swallows the error of the send call as it does the label call's
CallErrorResponseSwallowed(ph, id) == SentResponse(id, TRUE)

\* function.go:148-152 and 171-173: what the handler answers when the API call
\* of the given phase returns an error
CallErrorResponse(ph, id) ==
    IF ph = "send"
    THEN ErrorResponse(StatusBadGateway, "Upstream API Error")
    ELSE SentResponse(id, TRUE)

----------------------------------------------------------------------------
(* Initial states *)

InitCommon ==
    /\ env \in EnvConfigs
    /\ now = 0
    /\ gmailService = 0
    /\ services = {}
    /\ cache = [s \in Reqs |-> <<>>]
    /\ lock = [s \in Reqs |-> 0]
    /\ pc = [r \in Reqs |-> "idle"]
    /\ payload = [r \in Reqs |-> NoPayload]
    /\ svc = [r \in Reqs |-> 0]
    /\ sentMsg = [r \in Reqs |-> ""]
    /\ labelsToAdd = [r \in Reqs |-> <<>>]
    /\ resp = [r \in Reqs |-> NoResp]
    /\ calls = [r \in Reqs |-> NoCalls]
    /\ fault = [r \in Reqs |-> NoFault]
    /\ lastExch = [s \in Reqs |-> NoAnswer]
    /\ contended = [r \in Reqs |-> FALSE]
    /\ epoch = [s \in Reqs |-> NoEpoch]
    /\ carried = [r \in Reqs |-> NoCredential]
    /\ jwt = [r \in Reqs |-> NoClaims]
    /\ modifyReq = [r \in Reqs |-> NoModify]

\* a cold process that will be posted MaxPosts plain requests, possibly at once
Init ==
    /\ InitCommon
    /\ client = [quota |-> MaxPosts, kind |-> "conc", serial |-> FALSE]
    /\ mime = NoMime

\* a cold process that will be posted a request of any shape and then plain
\* ones, each after the response to the one before
InitV ==
    /\ InitCommon
    /\ client = [quota |-> MaxPosts, kind |-> "rich", serial |-> TRUE]
    /\ mime = NoMime

----------------------------------------------------------------------------
(* The clock *)

Tick ==
    /\ now < MaxTime
    /\ now' = now + 1
    /\ UNCHANGED <<modifyReq, carried, jwt, mime, env, client, gmailService, services, cache, lock, pc, payload,
                   svc, sentMsg, labelsToAdd, resp, calls, fault, lastExch, contended, epoch>>

----------------------------------------------------------------------------
(* HandleEmail *)

\* a request arrives on the first free slot and its body is decoded
\* (function.go:80-91); the slot starts with fresh locals
Receive(r) ==
    /\ Free(r)
    /\ client.quota > 0
    /\ \A q \in Reqs : q < r => ~Free(q)
    /\ client.serial => \A q \in Reqs : Free(q)
    /\ \E p \in PayloadsOf(client.kind) :
          payload' = [payload EXCEPT ![r] = p]
    /\ client' = [client EXCEPT !.quota = @ - 1, !.kind = "conc"]
    /\ pc' = [pc EXCEPT ![r] = "validate"]
    /\ svc' = [svc EXCEPT ![r] = 0]
    /\ sentMsg' = [sentMsg EXCEPT ![r] = ""]
    /\ labelsToAdd' = [labelsToAdd EXCEPT ![r] = <<>>]
    /\ resp' = [resp EXCEPT ![r] = NoResp]
    /\ calls' = [calls EXCEPT ![r] = NoCalls]
    /\ fault' = [fault EXCEPT ![r] = NoFault]
    /\ contended' = [contended EXCEPT ![r] = FALSE]
    /\ carried' = [carried EXCEPT ![r] = NoCredential]
    /\ jwt' = [jwt EXCEPT ![r] = NoClaims]
    /\ modifyReq' = [modifyReq EXCEPT ![r] = NoModify]
    /\ UNCHANGED <<mime, env, now, gmailService, services, cache, lock, lastExch, epoch>>

\* a handler that returns without writing a response
FinishSilently(r, response) ==
    /\ resp' = resp
    /\ pc' = [pc EXCEPT ![r] = "done"]

\* http.Error or WriteHeader and Fprintf, then return
Finish(r, response) ==
    /\ resp' = [resp EXCEPT ![r] = response]
    /\ pc' = [pc EXCEPT ![r] = "done"]

\* function.go:91-95
RejectJSON(r) ==
    /\ pc[r] = "validate"
    /\ ~payload[r].jsonOk
    /\ Finish(r, ErrorResponse(StatusBadRequest, "Bad Request"))
    /\ UNCHANGED <<modifyReq, carried, jwt, mime, env, client, now, gmailService, services, cache, lock, payload,
                   svc, sentMsg, labelsToAdd, calls, fault, lastExch, contended, epoch>>

\* function.go:99-107
RejectLoop(r) ==
    /\ pc[r] = "validate"
    /\ payload[r].jsonOk
    /\ LoopBlocked(payload[r], env)
    /\ Finish(r, ErrorResponse(StatusBadRequest, "Safety Block: Cannot send to self"))
    /\ UNCHANGED <<modifyReq, carried, jwt, mime, env, client, now, gmailService, services, cache, lock, payload,
                   svc, sentMsg, labelsToAdd, calls, fault, lastExch, contended, epoch>>

\* function.go:109-119
RejectSize(r) ==
    /\ pc[r] = "validate"
    /\ payload[r].jsonOk
    /\ ~LoopBlocked(payload[r], env)
    /\ SizeExceeded(TotalSize(payload[r]))
    /\ Finish(r, ErrorResponse(StatusBadRequest, "Attachments exceed size limit"))
    /\ UNCHANGED <<modifyReq, carried, jwt, mime, env, client, now, gmailService, services, cache, lock, payload,
                   svc, sentMsg, labelsToAdd, calls, fault, lastExch, contended, epoch>>

\* a handler that goes on to the core whatever the loop and size checks say
PassChecksUnchecked(r) ==
    /\ pc[r] = "validate"
    /\ payload[r].jsonOk
    /\ pc' = [pc EXCEPT ![r] = "init"]
    /\ UNCHANGED <<modifyReq, carried, jwt, mime, env, client, now, gmailService, services, cache, lock, payload,
                   svc, sentMsg, labelsToAdd, resp, calls, fault, lastExch, contended, epoch>>

\* all three checks passed; the handler calls initGmailService (function.go:122)
PassChecks(r) ==
    /\ pc[r] = "validate"
    /\ payload[r].jsonOk
    /\ ~LoopBlocked(payload[r], env)
    /\ ~SizeExceeded(TotalSize(payload[r]))
    /\ pc' = [pc EXCEPT ![r] = "init"]
    /\ UNCHANGED <<modifyReq, carried, jwt, mime, env, client, now, gmailService, services, cache, lock, payload,
                   svc, sentMsg, labelsToAdd, resp, calls, fault, lastExch, contended, epoch>>

----------------------------------------------------------------------------
(* initGmailService; the global is read and written without synchronisation *)

\* function.go:43-45: the handle is already set
InitReuse(r) ==
    /\ pc[r] = "init"
    /\ calls' = [calls EXCEPT ![r].init = @ + 1]
    /\ gmailService # 0
    /\ pc' = [pc EXCEPT ![r] = "build"]
    /\ UNCHANGED <<modifyReq, carried, jwt, mime, env, client, now, gmailService, services, cache, lock, payload,
                   svc, sentMsg, labelsToAdd, resp, fault, lastExch, contended, epoch>>

\* function.go:48-53, 122-126
InitMissingEnv(r) ==
    /\ pc[r] = "init"
    /\ calls' = [calls EXCEPT ![r].init = @ + 1]
    /\ gmailService = 0
    /\ env.delegatedUser = "" \/ env.functionSA = ""
    /\ Finish(r, ErrorResponse(StatusInternalServerError, "Auth Configuration Error"))
    /\ UNCHANGED <<modifyReq, carried, jwt, mime, env, client, now, gmailService, services, cache, lock, payload,
                   svc, sentMsg, labelsToAdd, fault, lastExch, contended, epoch>>

\* function.go:43-57: the handle was nil when read; the clients are being created
InitStart(r) ==
    /\ pc[r] = "init"
    /\ calls' = [calls EXCEPT ![r].init = @ + 1]
    /\ gmailService = 0
    /\ env.delegatedUser # "" /\ env.functionSA # ""
    /\ pc' = [pc EXCEPT ![r] = "creating"]
    /\ UNCHANGED <<modifyReq, carried, jwt, mime, env, client, now, gmailService, services, cache, lock, payload,
                   svc, sentMsg, labelsToAdd, resp, fault, lastExch, contended, epoch>>

\* an initGmailService that stores the handle before it returns the error
InitClientErrorKeepsHandle(r) ==
    /\ pc[r] = "creating"
    /\ services' = services \cup {r}
    /\ gmailService' = r
    /\ Finish(r, ErrorResponse(StatusInternalServerError, "Auth Configuration Error"))
    /\ UNCHANGED <<modifyReq, carried, jwt, mime, env, client, now, cache, lock, payload,
                   svc, sentMsg, labelsToAdd, calls, fault, lastExch, contended, epoch>>

\* function.go:57-60, 72-75, 122-126: creating the IAM or the mail client fails
InitClientError(r) ==
    /\ pc[r] = "creating"
    /\ Finish(r, ErrorResponse(StatusInternalServerError, "Auth Configuration Error"))
    /\ UNCHANGED <<modifyReq, carried, jwt, mime, env, client, now, gmailService, services, cache, lock, payload,
                   svc, sentMsg, labelsToAdd, calls, fault, lastExch, contended, epoch>>

\* function.go:64-77: a service with its own, empty reuseTokenSource is created
\* and stored in the global; no token is fetched yet
InitInstall(r) ==
    /\ pc[r] = "creating"
    /\ services' = services \cup {r}
    /\ gmailService' = r
    /\ pc' = [pc EXCEPT ![r] = "build"]
    /\ UNCHANGED <<modifyReq, carried, jwt, mime, env, client, now, cache, lock, payload, svc, sentMsg,
                   labelsToAdd, resp, calls, fault, lastExch, contended, epoch>>

----------------------------------------------------------------------------
(* BuildMime and the send call *)

\* function.go:135-140
BuildError(r) ==
    /\ pc[r] = "build"
    /\ calls' = [calls EXCEPT ![r].build = @ + 1]
    /\ fault' = [fault EXCEPT ![r].build = TRUE]
    /\ Finish(r, ErrorResponse(StatusInternalServerError, "Message Build Error"))
    /\ UNCHANGED <<modifyReq, carried, jwt, mime, env, client, now, gmailService, services, cache, lock, payload,
                   svc, sentMsg, labelsToAdd, lastExch, contended, epoch>>

\* function.go:135-147: the message is built and the send call starts on the
\* service the global holds at that moment
PrepareSend(r) ==
    /\ pc[r] = "build"
    /\ calls' = [calls EXCEPT ![r].build = @ + 1]
    /\ svc' = [svc EXCEPT ![r] = gmailService]
    /\ contended' = [contended EXCEPT ![r] = ~MutexFree(gmailService)]
    /\ pc' = [pc EXCEPT ![r] = "sendTok"]
    /\ UNCHANGED <<modifyReq, carried, jwt, mime, env, client, now, gmailService, services, cache, lock, payload,
                   sentMsg, labelsToAdd, resp, fault, lastExch, epoch>>

----------------------------------------------------------------------------
(* The credential demand of an API call: reuseTokenSource.Token in front of *)
(* KeylessTokenSource.Token                                                 *)

\* the held token is valid: it is returned, nothing is fetched
TokenReuse(r) ==
    /\ pc[r] \in TokPcs
    /\ MutexFree(svc[r])
    /\ ~NeedsRefresh(svc[r])
    /\ pc' = [pc EXCEPT ![r] = PcCall(Phase(pc[r]))]
    /\ contended' = [contended EXCEPT ![r] = FALSE]
    /\ carried' = [carried EXCEPT ![r] = [token |-> cache[svc[r]], fresh |-> FALSE]]
    /\ UNCHANGED <<modifyReq, jwt, mime, env, client, now, gmailService, services, cache, lock, payload,
                   svc, sentMsg, labelsToAdd, resp, calls, fault, lastExch, epoch>>

\* the held token is nil or expired: Token() is entered with the mutex held
\* (dwd.go:35-62); the demands of the other requests on this service now wait
TokenLock(r) ==
    /\ pc[r] \in TokPcs
    /\ MutexFree(svc[r])
    /\ NeedsRefresh(svc[r])
    /\ lock' = [lock EXCEPT ![svc[r]] = r]
    /\ calls' = [calls EXCEPT ![r].tsign = 0, ![r].texch = 0]
    /\ pc' = [pc EXCEPT ![r] = PcSign(Phase(pc[r]))]
    /\ contended' = [q \in Reqs |->
                       IF q # r /\ pc[q] \in TokPcs /\ svc[q] = svc[r]
                       THEN TRUE ELSE contended[q]]
    /\ UNCHANGED <<modifyReq, carried, jwt, mime, env, client, now, gmailService, services, cache, payload,
                   svc, sentMsg, labelsToAdd, resp, fault, lastExch, epoch>>

\* a Token() that starts over after a failed call instead of returning the error
TokenErrorRetried(r) ==
    /\ pc' = [pc EXCEPT ![r] = PcSign(Phase(pc[r]))]
    /\ UNCHANGED <<lock, fault, contended, resp>>

\* Token() returned an error to the API call of request r: the call is not
\* issued and returns that error (function.go:148-152, 171-173)
TokenError(r) ==
    /\ lock' = [lock EXCEPT ![svc[r]] = 0]
    /\ fault' = [fault EXCEPT ![r].token = Phase(pc[r]),
                              ![r].modify = (Phase(pc[r]) = "label")]
    /\ contended' = [contended EXCEPT ![r] = FALSE]
    /\ Finish(r, CallErrorResponse(Phase(pc[r]), sentMsg[r]))

\* dwd.go:64-67
SignJwt(r) ==
    /\ pc[r] \in SignPcs
    /\ \E ok \in BOOLEAN :
          /\ calls' = [calls EXCEPT ![r].sign = @ + 1,
                                    ![r].tsign = @ + 1,
                                    ![r].signOk = @ + (IF ok THEN 1 ELSE 0)]
          /\ jwt' = [jwt EXCEPT ![r] = ClaimSet(TokenSource(env), now)]
          /\ IF SignProceeds(ok)
             THEN /\ pc' = [pc EXCEPT ![r] = PcExch(Phase(pc[r]))]
                  /\ epoch' = [epoch EXCEPT ![svc[r]].signs = @ + 1]
                  /\ UNCHANGED <<lock, fault, contended, resp>>
             ELSE /\ epoch' = [epoch EXCEPT ![svc[r]].signs = @ + 1,
                                            ![svc[r]].fails = @ + 1]
                  /\ TokenError(r)
    /\ UNCHANGED <<modifyReq, carried, mime, env, client, now, gmailService, services, cache, payload,
                   svc, sentMsg, labelsToAdd, lastExch>>

\* dwd.go:75-101 and the store of the new token by the reuseTokenSource
Exchange(r) ==
    /\ pc[r] \in ExchPcs
    /\ \E x \in ExchangeResponses :
          /\ calls' = [calls EXCEPT ![r].exch = @ + 1, ![r].texch = @ + 1]
          /\ lastExch' = [lastExch EXCEPT ![svc[r]] = [answer |-> x, at |-> now]]
          /\ IF ExchangeFails(x)
             THEN /\ epoch' = [epoch EXCEPT ![svc[r]].fails = @ + 1]
                  /\ TokenError(r)
                  /\ UNCHANGED <<cache, carried>>
             ELSE /\ cache' = [cache EXCEPT ![svc[r]] = <<TokenOf(x, now)>>]
                  /\ carried' = [carried EXCEPT
                                   ![r] = [token |-> <<TokenOf(x, now)>>, fresh |-> TRUE]]
                  /\ epoch' = [epoch EXCEPT ![svc[r]] = NoEpoch]
                  /\ lock' = [lock EXCEPT ![svc[r]] = 0]
                  /\ pc' = [pc EXCEPT ![r] = PcCall(Phase(pc[r]))]
                  /\ contended' = [contended EXCEPT ![r] = FALSE]
                  /\ UNCHANGED <<fault, resp>>
    /\ UNCHANGED <<modifyReq, jwt, mime, env, client, now, gmailService, services, payload,
                   svc, sentMsg, labelsToAdd>>

----------------------------------------------------------------------------
(* The API calls *)

\* a handler that goes on to the label call after a failed send
SendFailThenLabel(r) ==
    /\ pc[r] = "sendCall"
    /\ calls' = [calls EXCEPT ![r].send = @ + 1]
    /\ labelsToAdd' = [labelsToAdd EXCEPT ![r] = LabelList(payload[r].Options)]
    /\ svc' = [svc EXCEPT ![r] = gmailService]
    /\ pc' = [pc EXCEPT ![r] = "labelTok"]
    /\ UNCHANGED <<modifyReq, carried, jwt, mime, env, client, now, gmailService, services, cache, lock, payload,
                   sentMsg, resp, fault, lastExch, contended, epoch>>

\* function.go:147-152: Messages.Send fails
SendFail(r) ==
    /\ pc[r] = "sendCall"
    /\ calls' = [calls EXCEPT ![r].send = @ + 1]
    /\ Finish(r, CallErrorResponse("send", ""))
    /\ UNCHANGED <<modifyReq, carried, jwt, mime, env, client, now, gmailService, services, cache, lock, payload,
                   svc, sentMsg, labelsToAdd, fault, lastExch, contended, epoch>>

\* function.go:147-168, 176-186: Messages.Send returns a message id; the label
\* list is computed; with labels the modify call starts on the service the
\* global holds now, without labels the response is written
SendOk(r) ==
    /\ pc[r] = "sendCall"
    /\ calls' = [calls EXCEPT ![r].send = @ + 1]
    /\ \E id \in MsgIds :
          /\ sentMsg' = [sentMsg EXCEPT ![r] = id]
          /\ LET labels == LabelList(payload[r].Options) IN
               /\ labelsToAdd' = [labelsToAdd EXCEPT ![r] = labels]
               /\ payload' = [payload EXCEPT
                                ![r] = RequestAfterLabels(payload[r], labels)]
               /\ IF Len(labels) > 0
                  THEN /\ svc' = [svc EXCEPT ![r] = gmailService]
                       /\ contended' = [contended EXCEPT
                                          ![r] = ~MutexFree(gmailService)]
                       /\ pc' = [pc EXCEPT ![r] = "labelTok"]
                       /\ UNCHANGED resp
                  ELSE /\ Finish(r, SentResponse(id, FALSE))
                       /\ UNCHANGED <<svc, contended>>
    /\ UNCHANGED <<modifyReq, carried, jwt, mime, env, client, now, gmailService, services, cache, lock,
                   fault, lastExch, epoch>>

\* function.go:168-186: Messages.Modify returns, with or without an error
ModifyDo(r) ==
    /\ pc[r] = "labelCall"
    /\ calls' = [calls EXCEPT ![r].modify = @ + 1]
    /\ modifyReq' = [modifyReq EXCEPT
                       ![r] = [id |-> sentMsg[r], AddLabelIds |-> labelsToAdd[r]]]
    /\ \E ok \in BOOLEAN :
          /\ fault' = [fault EXCEPT ![r].modify = ~ok]
          /\ Finish(r, SentResponse(sentMsg[r], ~ok))
    /\ UNCHANGED <<carried, jwt, mime, env, client, now, gmailService, services, cache, lock, payload,
                   svc, sentMsg, labelsToAdd, lastExch, contended, epoch>>

----------------------------------------------------------------------------

Next ==
    \/ Tick
    \/ \E r \in Reqs : Receive(r)
    \/ \E r \in Reqs : RejectJSON(r)
    \/ \E r \in Reqs : RejectLoop(r)
    \/ \E r \in Reqs : RejectSize(r)
    \/ \E r \in Reqs : PassChecks(r)
    \/ \E r \in Reqs : InitReuse(r)
    \/ \E r \in Reqs : InitMissingEnv(r)
    \/ \E r \in Reqs : InitStart(r)
    \/ \E r \in Reqs : InitClientError(r)
    \/ \E r \in Reqs : InitInstall(r)
    \/ \E r \in Reqs : BuildError(r)
    \/ \E r \in Reqs : PrepareSend(r)
    \/ \E r \in Reqs : TokenReuse(r)
    \/ \E r \in Reqs : TokenLock(r)
    \/ \E r \in Reqs : SignJwt(r)
    \/ \E r \in Reqs : Exchange(r)
    \/ \E r \in Reqs : SendFail(r)
    \/ \E r \in Reqs : SendOk(r)
    \/ \E r \in Reqs : ModifyDo(r)

\* a step of HandleEmail for the request on slot r
Step(r) ==
    \/ RejectJSON(r) \/ RejectLoop(r) \/ RejectSize(r) \/ PassChecks(r)
    \/ InitReuse(r) \/ InitMissingEnv(r) \/ InitStart(r)
    \/ InitClientError(r) \/ InitInstall(r)
    \/ BuildError(r) \/ PrepareSend(r)
    \/ TokenReuse(r) \/ TokenLock(r) \/ SignJwt(r) \/ Exchange(r)
    \/ SendFail(r) \/ SendOk(r) \/ ModifyDo(r)

\* concurrent plain requests
Spec == Init /\ [][Next]_vars

\* requests one at a time, in a process whose goroutines keep running and
\* whose external calls all return
SpecL == InitV /\ [][Next]_vars /\ \A r \in Reqs : WF_vars(Step(r))

\* a request of any shape, then plain ones, one at a time
SpecV == InitV /\ [][Next]_vars

----------------------------------------------------------------------------
(* BuildMime examined alone: one request, built up to MaxBuilds times *)

InitB ==
    /\ InitCommon
    /\ env = [delegatedUser |-> Admin, aliasEmail |-> Alias, functionSA |-> RobotSA]
    /\ client = [quota |-> 0, kind |-> "conc", serial |-> TRUE]
    /\ mime \in [req : BuildRequests, outs : {<<>>}]

\* builder.go:59-151, called as at function.go:135
Build ==
    /\ Len(mime.outs) < MaxBuilds
    /\ \E boundary \in Boundaries, order \in Orders(mime.req.CustomHeaders) :
          mime' = [mime EXCEPT
                     !.outs = Append(@, BuildMime(mime.req, boundary, order))]
    /\ UNCHANGED handlerVars

NextB == Build

SpecB == InitB /\ [][NextB]_vars

----------------------------------------------------------------------------
(* Properties *)

Done(r) == pc[r] = "done"

Success(code) == code \in 200..299

Addressees(p) == {p.Recipient} \cup Range(p.CC) \cup Range(p.BCC)

Self == {env.delegatedUser, env.aliasEmail}

\* the Modify call of request r returned an error (its own or Token()'s)
LabelFailed(r) == fault[r].modify

\* the Modify call of request r was issued and returned no error
LabelApplied(r) == calls[r].modify = 1 /\ ~fault[r].modify

\* C1 as stated: whenever Token() or BuildMime failed during a request, the
\* response is non-2xx and no send call of that request has succeeded.
C1_AnyFailureNoSend ==
    \A r \in Reqs :
        (fault[r].token # "none" \/ fault[r].build) =>
            /\ Done(r)
            /\ ~Success(resp[r].code)
            /\ sentMsg[r] = ""

\* C1 amended: when BuildMime fails, or Token() fails in the credential demand
\* of the send call, the response is non-2xx and no send call was issued; when
\* Token() fails in the credential demand of the label call, the send has
\* already succeeded and the failure is swallowed like any label failure: the
\* response is the 200 "sent" response.
C1_FailureBeforeSendNoSend ==
    \A r \in Reqs :
        /\ (fault[r].token = "send" \/ fault[r].build) =>
              /\ Done(r)
              /\ ~Success(resp[r].code)
              /\ sentMsg[r] = ""
              /\ calls[r].send = 0
        /\ fault[r].token = "label" =>
              /\ Done(r)
              /\ sentMsg[r] # ""
              /\ resp[r] = [code |-> StatusOK, body |-> <<"sent", sentMsg[r]>>]

C1_Witness ==
    \E r \in Reqs : Done(r) /\ fault[r].token = "send" /\ resp[r].code = StatusBadGateway

\* C2: when the send succeeded and the label call failed, the response is 200
\* with status "sent" and the message id, and equals the response of a request
\* with the same message id whose label call succeeded.
C2_LabelFailureSwallowed ==
    \A r \in Reqs :
        (Done(r) /\ sentMsg[r] # "" /\ LabelFailed(r)) =>
            /\ resp[r] = [code |-> StatusOK, body |-> <<"sent", sentMsg[r]>>]
            /\ \A q \in Reqs :
                  (Done(q) /\ sentMsg[q] = sentMsg[r] /\ LabelApplied(q))
                      => resp[q] = resp[r]

C2_Witness ==
    \E r, q \in Reqs :
        /\ Done(r) /\ Done(q)
        /\ sentMsg[r] # "" /\ sentMsg[q] = sentMsg[r]
        /\ LabelFailed(r) /\ calls[r].modify = 1
        /\ LabelApplied(q)

\* C3: a request whose recipient is the delegated user email or the alias email
\* is answered with 400 and never gets as far as a send call.
C3_LoopPrevention ==
    \A r \in Reqs :
        (pc[r] # "idle" /\ payload[r].Recipient \in Self) =>
            /\ pc[r] \in {"validate", "done"}
            /\ calls[r].send = 0
            /\ Done(r) => resp[r].code = StatusBadRequest

C3_Witness ==
    \E r \in Reqs :
        /\ Done(r) /\ payload[r].jsonOk
        /\ payload[r].Recipient = env.aliasEmail
        /\ resp[r].code = StatusBadRequest

\* C4 as stated: no send call is issued for a message one of whose To, Cc or Bcc
\* addressees is the delegated user email or the alias email.
C4_NeverSendsToSelf ==
    \A r \in Reqs :
        calls[r].send > 0 => Addressees(payload[r]) \cap Self = {}

\* C5: a request whose content_b64 lengths sum to more than 20*1024*1024*1.33
\* (27892121.6, so 27892122 or more) is answered with 400 without a send call;
\* a request whose sum is at most 27892121 is not rejected by the size check.
C5_SizeLimit ==
    \A r \in Reqs :
        pc[r] \notin {"idle", "validate"} =>
            /\ TotalSize(payload[r]) >= 27892122 =>
                  /\ Done(r)
                  /\ resp[r].code = StatusBadRequest
                  /\ calls[r].send = 0
            /\ (payload[r].jsonOk /\ payload[r].Recipient \notin Self) =>
                  (resp[r] = ErrorResponse(StatusBadRequest, "Attachments exceed size limit")
                      <=> TotalSize(payload[r]) >= 27892122)

C5_Witness ==
    \E r \in Reqs :
        /\ TotalSize(payload[r]) = 27892122
        /\ resp[r] = ErrorResponse(StatusBadRequest, "Attachments exceed size limit")

\* C6: across a sequence of requests, a request is inside Token(), about to
\* issue a signing call or a token-exchange call, only while no credential
\* acquired earlier in the process is still valid; a demand that finds a valid
\* credential issues neither call.
C6_CacheReuse ==
    \A r \in Reqs :
        pc[r] \in SignPcs \cup ExchPcs =>
            \A s \in services : ~TokenValid(cache[s], now)

\* a request that got its credential for the send call without any signing call
C6_Witness ==
    \E r \in Reqs :
        /\ pc[r] = "sendCall"
        /\ calls[r].sign = 0
        /\ TokenValid(cache[svc[r]], now)

\* C7: when the token endpoint answers with a status other than 200 or with an
\* undecodable body, Token() returns an error and stores nothing: the held
\* credential stays not valid and the mutex is released; the next demand on
\* that handle enters Token() again, which issues a signing call and then,
\* if that succeeds, an exchange call.
C7_ExchangeFailureNotCached ==
    [][/\ \A r \in Reqs :
             (calls'[r].exch > calls[r].exch
                 /\ lastExch'[svc[r]].answer.kind \in {"status500", "undecodable"}) =>
                   /\ fault'[r].token = Phase(pc[r])
                   /\ cache' = cache
                   /\ ~TokenValid(cache'[svc[r]], now')
                   /\ lock'[svc[r]] = 0
       /\ \A s \in Reqs :
             lastExch'[s].answer.kind \in {"status500", "undecodable"} =>
                   ~TokenValid(cache'[s], now')
       /\ \A r \in Reqs :
             (pc[r] \in TokPcs /\ pc'[r] # pc[r]
                 /\ lastExch[svc[r]].answer.kind \in {"status500", "undecodable"}) =>
                   pc'[r] \in SignPcs
       /\ \A r \in Reqs :
             (pc[r] \in SignPcs /\ pc'[r] # pc[r]) => calls'[r].sign = calls[r].sign + 1
       /\ \A r \in Reqs :
             (pc[r] \in ExchPcs /\ pc'[r] # pc[r]) => calls'[r].exch = calls[r].exch + 1
      ]_vars

\* after a 500 answer a later demand has signed afresh and is about to exchange
C7_Witness ==
    \E q \in Reqs :
        /\ pc[q] \in ExchPcs
        /\ calls[q].sign = 1 /\ calls[q].exch = 0
        /\ lastExch[svc[q]].answer.kind = "status500"

\* C8 as stated: when a credential has been stored and has expired, a request
\* whose demand waited for another request's Token() call never enters Token()
\* itself after a signing call has been made for that expiry.
C8_OneSigningPerExpiry ==
    \A q \in Reqs :
        (/\ pc[q] \in SignPcs /\ contended[q]
         /\ cache[svc[q]] # <<>>
         /\ cache[svc[q]][1].AccessToken # "")
            => epoch[svc[q]].signs = 0

\* C8 amended: on one client handle at most one request is inside Token() at a
\* time and the others wait; between two stores of a credential every signing
\* call but the one in progress belongs to a Token() call that failed, so a
\* waiting request signs itself only after the acquisition it waited for
\* failed (or stored a credential that is not valid).
C8_SerialisedRefresh ==
    \A s \in Reqs :
        /\ Cardinality({r \in Reqs : pc[r] \in SignPcs \cup ExchPcs /\ svc[r] = s}) <= 1
        /\ epoch[s].signs <= epoch[s].fails + 1
        /\ \A q \in Reqs :
              (pc[q] \in SignPcs /\ svc[q] = s) => epoch[s].signs = epoch[s].fails

\* one request refreshes an expired credential while another waits on the mutex
C8_Witness ==
    \E r, q \in Reqs :
        /\ r # q /\ svc[r] = svc[q]
        /\ pc[r] \in SignPcs \cup ExchPcs
        /\ pc[q] \in TokPcs /\ contended[q]
        /\ cache[svc[r]] # <<>>
        /\ cache[svc[r]][1].AccessToken # ""

\* C9 as stated: the global handle is installed by a single writer and never
\* replaced, and credentials are acquired for one handle only.
C9_SingleWriter ==
    /\ Cardinality(services) <= 1
    /\ Cardinality({s \in Reqs : cache[s] # <<>>}) <= 1

\* C10: a request never has more token-exchange calls than successful signing
\* calls, and a failed signing call ends the request's Token() call with an
\* error.
C10_NoExchangeAfterSignFailure ==
    \A r \in Reqs :
        /\ calls[r].exch <= calls[r].signOk
        /\ calls[r].sign > calls[r].signOk =>
              /\ Done(r)
              /\ fault[r].token # "none"

C10_Witness ==
    \E r \in Reqs :
        /\ calls[r].sign = 2 /\ calls[r].signOk = 1 /\ calls[r].exch = 1
        /\ fault[r].token = "label"

\* C11: one Token() call issues at most one signing call and at most one
\* token-exchange call; when either fails the error goes to the caller, which
\* ends the request, with no further call made by that Token() call.
C11_NoRetries ==
    \A r \in Reqs :
        /\ calls[r].tsign <= 1
        /\ calls[r].texch <= 1
        /\ fault[r].token # "none" =>
              /\ Done(r)
              /\ calls[r].tsign = 1
              /\ calls[r].texch = (IF calls[r].sign > calls[r].signOk THEN 0 ELSE 1)

\* a Token() call whose exchange failed after its one signing call
C11_Witness ==
    \E r \in Reqs :
        /\ Done(r) /\ fault[r].token = "send"
        /\ calls[r].tsign = 1 /\ calls[r].texch = 1
        /\ resp[r].code = StatusBadGateway

C13_ClaimSet ==
    \A r \in Reqs :
        calls[r].sign > 0 =>
            /\ jwt[r].iss = env.functionSA /\ jwt[r].iss # ""
            /\ jwt[r].sub = env.delegatedUser /\ jwt[r].sub # ""
            /\ jwt[r].scope = <<GmailSendScope, GmailModifyScope>>
            /\ jwt[r].aud = OAuth2TokenURL
            /\ jwt[r].iat <= now
            /\ jwt[r].exp = jwt[r].iat + 3600

\* a claim set issued at second 1
C13_Witness ==
    \E r \in Reqs :
        /\ calls[r].sign > 0
        /\ jwt[r].sub = Admin /\ jwt[r].iss = RobotSA
        /\ jwt[r].iat = 1 /\ jwt[r].exp = 3601

\* C14: the credential a successful Token() call returns has the access token
\* and the token type of the token endpoint's answer, and expires expires_in
\* seconds after the time the answer was received.
C14_TokenFromResponse ==
    \A r \in Reqs :
        (pc[r] \in {"sendCall", "labelCall"} /\ carried[r].fresh) =>
            LET x == lastExch[svc[r]].answer
                t == lastExch[svc[r]].at
            IN  /\ x.kind = "ok"
                /\ carried[r].token[1].AccessToken = x.access_token
                /\ carried[r].token[1].TokenType = x.token_type
                /\ carried[r].token[1].Expiry = t + x.expires_in

\* a credential acquired at second 1
C14_Witness ==
    \E r \in Reqs :
        /\ pc[r] = "sendCall" /\ carried[r].fresh
        /\ lastExch[svc[r]].at = 1
        /\ carried[r].token[1] =
              [AccessToken |-> "ya29", TokenType |-> "Bearer",
               Expiry |-> 1 + ExpiryDelta]

----------------------------------------------------------------------------
(* Reading a built message back: lines, header block, parts *)

RECURSIVE SortedSeq(_)
SortedSeq(S) ==
    IF S = {} THEN <<>>
    ELSE LET m == CHOOSE x \in S : \A y \in S : x <= y
         IN  <<m>> \o SortedSeq(S \ {m})

\* the lines of a message, without their CRLF
Lines(out) ==
    LET ends == SortedSeq({i \in 1..(Len(out) - 1) :
                              out[i] = CR /\ out[i + 1] = LF})
        from(k) == IF k = 1 THEN 1 ELSE ends[k - 1] + 2
        rest == IF ends = <<>> THEN out
                ELSE SubSeq(out, ends[Len(ends)] + 2, Len(out))
    IN  [k \in 1..Len(ends) |-> SubSeq(out, from(k), ends[k] - 1)]
          \o (IF rest = <<>> THEN <<>> ELSE <<rest>>)

FirstAt(lines, line) ==
    IF \E i \in 1..Len(lines) : lines[i] = line
    THEN CHOOSE i \in 1..Len(lines) :
            lines[i] = line /\ \A j \in 1..(i - 1) : lines[j] # line
    ELSE 0

IsHeader(line, key) == Len(line) >= 2 /\ line[1] = key /\ line[2] = ": "

IsMultipartHeader(line) ==
    /\ IsHeader(line, "Content-Type")
    /\ Len(line) = 5 /\ line[3] = "multipart/mixed" /\ line[4] = "; boundary="

\* index of the first multipart Content-Type header among lines hs, 0 if none
MultipartAt(hs) ==
    IF \E i \in 1..Len(hs) : IsMultipartHeader(hs[i])
    THEN CHOOSE i \in 1..Len(hs) :
            IsMultipartHeader(hs[i])
            /\ \A j \in 1..(i - 1) : ~IsMultipartHeader(hs[j])
    ELSE 0

\* a part read back from the lines between two delimiters: its header lines
\* and the content after the blank line that ends them
PartOf(chunk) ==
    LET blank == FirstAt(chunk, <<>>) IN
    [hdrs |-> SubSeq(chunk, 1, blank - 1),
     content |-> Join(SubSeq(chunk, blank + 1, Len(chunk)), CRLF)]

\* the parts of a body with boundary b: one for each delimiter line before
\* the closing delimiter
PartsOf(body, b) ==
    LET close == FirstAt(body, <<"--", b, "--">>)
        at    == SortedSeq({i \in 1..Len(body) :
                               body[i] = <<"--", b>> /\ i < close})
    IN  [k \in 1..Len(at) |->
            PartOf(SubSeq(body, at[k] + 1,
                          (IF k < Len(at) THEN at[k + 1] ELSE close) - 1))]

\* a message read back: its lines, the header block (the lines before the
\* first blank line), the lines after it, the place of the multipart
\* Content-Type header, the boundary it names, the parts, and whether it is
\* a multipart/mixed message (a boundary is named, the body starts with a
\* delimiter line and the closing delimiter is the last line)
Parsed(out) ==
    LET lines == Lines(out)
        blank == FirstAt(lines, <<>>)
        hdrs  == SubSeq(lines, 1, blank - 1)
        body  == SubSeq(lines, blank + 1, Len(lines))
        mp    == MultipartAt(hdrs)
        b     == IF mp > 0 THEN hdrs[mp][5] ELSE ""
    IN  [lines |-> lines, hdrs |-> hdrs, body |-> body, multipartAt |-> mp,
         boundary |-> b, parts |-> PartsOf(body, b),
         multipartMixed |->
            /\ blank > 0 /\ mp > 0 /\ body # <<>>
            /\ body[1] = <<"--", b>>
            /\ FirstAt(body, <<"--", b, "--">>) = Len(body)]

HtmlPartHeaders == <<<<"Content-Type", ": ", "text/html", "; ", "charset=UTF-8">>>>

\* the messages built so far, read back
Built == {Parsed(mime.outs[i]) : i \in 1..Len(mime.outs)}

\* C15 as stated: the message built for a request without attachments is
\* multipart/mixed with exactly one part, the text/html part, and no line of
\* it is a Content-Disposition header.
C15_OnePartNoDisposition ==
    \A m \in Built :
        mime.req.Attachments = <<>> =>
            /\ m.multipartMixed
            /\ Len(m.parts) = 1
            /\ m.parts[1].hdrs = HtmlPartHeaders
            /\ \A i \in 1..Len(m.lines) :
                  ~IsHeader(m.lines[i], "Content-Disposition")

\* C15 amended: the message built for a request without attachments is
\* multipart/mixed with exactly one part, whose only header is Content-Type
\* text/html; no Content-Disposition header is in a part, and one is in the
\* header block only as a custom header of that name given by the request.
C15_OnePartNoPartDisposition ==
    \A m \in Built :
        mime.req.Attachments = <<>> =>
            /\ m.multipartMixed
            /\ Len(m.parts) = 1
            /\ m.parts[1].hdrs = HtmlPartHeaders
            /\ \A i \in 1..Len(m.body) :
                  ~IsHeader(m.body[i], "Content-Disposition")
            /\ \A i \in 1..Len(m.hdrs) :
                  IsHeader(m.hdrs[i], "Content-Disposition") =>
                      /\ "Content-Disposition" \in DOMAIN mime.req.CustomHeaders
                      /\ i > m.multipartAt
                      /\ m.hdrs[i] =
                            <<"Content-Disposition", ": ">>
                              \o mime.req.CustomHeaders["Content-Disposition"]

\* a request without attachments and with a body has been built
C15_Witness ==
    \E m \in Built :
        /\ mime.req.Attachments = <<>>
        /\ mime.req.BodyHTML # <<>>
        /\ Len(m.parts) = 1
        /\ m.parts[1].content = <<"<p>ok</p>">>

\* the three headers of the part that carries attachment att
AttachmentPartHeaders(att) ==
    {<<"Content-Type", ": ">> \o att.MimeType,
     <<"Content-Transfer-Encoding", ": ", "base64">>,
     <<"Content-Disposition", ": ", "attachment", "; filename=\"">>
        \o att.Filename \o <<"\"">>}

\* C16: the message built for a request with N attachments has N+1 parts: the
\* text/html part first, then for each attachment, in input order, a part with
\* its MIME type, Content-Transfer-Encoding base64 and Content-Disposition
\* attachment with its filename; the closing boundary is the last line.
C16_PartsInOrder ==
    \A m \in Built :
        LET atts == mime.req.Attachments IN
            /\ m.multipartMixed
            /\ Len(m.parts) = Len(atts) + 1
            /\ m.parts[1].hdrs = HtmlPartHeaders
            /\ \A k \in 1..Len(atts) :
                  /\ Len(m.parts[k + 1].hdrs) = 3
                  /\ Range(m.parts[k + 1].hdrs) = AttachmentPartHeaders(atts[k])
            /\ m.lines[Len(m.lines)] = <<"--", m.boundary, "--">>

\* two different attachments have been built into a message
C16_Witness ==
    \E m \in Built :
        /\ Len(mime.req.Attachments) = 2
        /\ mime.req.Attachments[1].Filename = <<"b.png">>
        /\ mime.req.Attachments[2].Filename = <<"a.pdf">>
        /\ Len(m.parts) = 3

\* C17 as stated: two builds of the same request give the same bytes.
C17_Deterministic ==
    \A i, j \in 1..Len(mime.outs) : mime.outs[i] = mime.outs[j]

\* the header names of the lines of the header block up to the multipart
\* Content-Type header
LeadingHeaderNames(m) == [i \in 1..m.multipartAt |-> m.hdrs[i][1]]

OptionalName(present, name) == IF present THEN <<name>> ELSE <<>>

\* C18 as stated: the header block starts with From, then To, Cc, Bcc and
\* Reply-To for the fields that are not empty, then Subject, MIME-Version: 1.0
\* and the multipart Content-Type, whatever the subject is.
C18_HeaderOrder ==
    \A m \in Built :
        /\ m.multipartAt > 0
        /\ LeadingHeaderNames(m) =
              <<"From">>
                \o OptionalName(mime.req.Recipient # <<>>, "To")
                \o OptionalName(mime.req.CC # <<>>, "Cc")
                \o OptionalName(mime.req.BCC # <<>>, "Bcc")
                \o OptionalName(mime.req.ReplyTo # <<>>, "Reply-To")
                \o <<"Subject", "MIME-Version", "Content-Type">>
        /\ m.hdrs[m.multipartAt - 1] = <<"MIME-Version", ": ", "1.0">>

\* C19 as stated: for every entry of the custom headers the header block has
\* the line "key: value" after the multipart Content-Type header (and after
\* the read-receipt header when there is one).
C19_CustomHeadersVerbatim ==
    \A m \in Built :
        \A k \in DOMAIN mime.req.CustomHeaders :
            \E i \in 1..Len(m.hdrs) :
                /\ m.hdrs[i] = <<k, ": ">> \o mime.req.CustomHeaders[k]
                /\ i > m.multipartAt
                /\ \A j \in 1..Len(m.hdrs) :
                      IsHeader(m.hdrs[j], "Disposition-Notification-To") => j < i

\* a string without its LF characters and without the CR of its CRLF pairs
RECURSIVE WithoutLineBreaks(_)
WithoutLineBreaks(str) ==
    IF str = <<>> THEN <<>>
    ELSE IF Head(str) = LF THEN WithoutLineBreaks(Tail(str))
    ELSE IF Head(str) = CR /\ Len(str) >= 2 /\ str[2] = LF
         THEN WithoutLineBreaks(Tail(str))
    ELSE <<Head(str)>> \o WithoutLineBreaks(Tail(str))

\* C20 as stated: the content of every attachment part is the attachment's
\* content_b64 without its line breaks (LF, and the CR of a CRLF pair), the
\* other characters unchanged and in order.
C20_NewlinesRemoved ==
    \A m \in Built :
        Len(m.parts) = Len(mime.req.Attachments) + 1 =>
            \A k \in 1..Len(mime.req.Attachments) :
                m.parts[k + 1].content =
                    WithoutLineBreaks(mime.req.Attachments[k].ContentB64)

\* the pieces of text that have "<script" in them
ScriptPieces == {"<script>alert(1)</script>"}

HasScript(str) == \E i \in 1..Len(str) : str[i] \in ScriptPieces

\* C21: the body part of the message built for an HTML body that has a script
\* element in it has no "<script" in it (and neither has any other line of the
\* part).
C21_NoScriptInBody ==
    \A m \in Built :
        HasScript(mime.req.BodyHTML) =>
            /\ Len(m.parts) >= 1
            /\ m.parts[1].hdrs = HtmlPartHeaders
            /\ ~HasScript(m.parts[1].content)
            /\ \A i \in 1..Len(m.parts[1].hdrs) : ~HasScript(m.parts[1].hdrs[i])

\* a body with a script element before and after a paragraph has been built,
\* and the paragraph is what the body part holds
C21_Witness ==
    \E m \in Built :
        /\ Len(mime.req.BodyHTML) = 3
        /\ HasScript(mime.req.BodyHTML)
        /\ Len(m.parts) >= 1
        /\ m.parts[1].content = <<"<p>ok</p>">>

\* the From line that names address addr as the sender, with the display name
\* of the request when it has one
FromLineOf(name, addr) ==
    IF name # <<>>
    THEN <<"From", ": ", "\"">> \o name \o <<"\" <", addr, ">">>
    ELSE <<"From", ": ", addr>>

\* C22 as stated: the sender address in the From header of every message built
\* for the send call is the configured ALIAS_USER_EMAIL.
C22_FromIsAlias ==
    \A m \in Built :
        /\ Len(m.hdrs) >= 1
        /\ m.hdrs[1] = FromLineOf(mime.req.SenderName, env.aliasEmail)

\* request r passed the JSON parse, the loop check and the size check
ChecksPassed(r) ==
    /\ payload[r].jsonOk
    /\ payload[r].Recipient # env.delegatedUser
    /\ payload[r].Recipient # env.aliasEmail
    /\ TotalSize(payload[r]) <= 27892121

\* C23: a request answered by the JSON parse, the loop check or the size check
\* has called neither initGmailService nor BuildMime and has issued no signing,
\* exchange, send or label call; a request that has done any of these, or is
\* past the checks, passed all three.
C23_ValidationFirst ==
    \A r \in Reqs :
        /\ (Done(r) /\ resp[r].code = StatusBadRequest) =>
              /\ ~ChecksPassed(r)
              /\ calls[r] = NoCalls
              /\ svc[r] = 0 /\ sentMsg[r] = ""
        /\ (calls[r] # NoCalls \/ pc[r] \notin {"idle", "validate", "done"}) =>
              ChecksPassed(r)
        /\ (Done(r) /\ ~ChecksPassed(r)) => resp[r].code = StatusBadRequest

\* a request is rejected by the size check in a process whose client was
\* initialised by an earlier request, and has called nothing
C23_Witness ==
    \E r \in Reqs :
        /\ services # {}
        /\ Done(r)
        /\ resp[r] = ErrorResponse(StatusBadRequest, "Attachments exceed size limit")
        /\ calls[r] = NoCalls

\* the send call of request r returned an error (its own or Token()'s)
SendFailed(r) ==
    Done(r) /\ sentMsg[r] = "" /\ (calls[r].send = 1 \/ fault[r].token = "send")

\* request r has gone on to the label call
LabelCallStarted(r) ==
    pc[r] \in LabelPcs \/ calls[r].modify > 0 \/ fault[r].token = "label"

\* C24: a request goes on to the label call only after its send call returned
\* a message id; it issues at most one label call, and that call names the id
\* the send returned; a request whose send failed is answered 502 and has
\* issued no label call.
C24_LabelAfterSend ==
    \A r \in Reqs :
        /\ LabelCallStarted(r) => (calls[r].send = 1 /\ sentMsg[r] \in MsgIds)
        /\ calls[r].modify <= 1
        /\ calls[r].modify = 1 => modifyReq[r].id = sentMsg[r]
        /\ calls[r].modify = 0 => modifyReq[r] = NoModify
        /\ SendFailed(r) =>
              /\ resp[r].code = StatusBadGateway
              /\ ~LabelCallStarted(r)

\* a label call was issued for message m2, the id its send returned
C24_Witness ==
    \E r \in Reqs :
        /\ Done(r) /\ calls[r].modify = 1
        /\ sentMsg[r] = "m2" /\ modifyReq[r].id = "m2"

\* the positions from the call of BuildMime to the response
BuiltPcs == {"build"} \cup SendPcs \cup LabelPcs

\* C25: from the call of BuildMime to the response, no step of a request
\* changes a field of its Email Request.
C25_RequestUnchanged ==
    [][\A r \in Reqs : pc[r] \in BuiltPcs => payload'[r] = payload[r]]_vars

\* a request with a label id and the starred flag has been answered after its
\* label call, which got both labels; the request still has the one label id
C25_Witness ==
    \E r \in Reqs :
        /\ Done(r) /\ calls[r].modify = 1
        /\ payload[r].Options.LabelIDs = <<"Label_1">>
        /\ payload[r].Options.Starred
        /\ labelsToAdd[r] = <<"Label_1", "STARRED">>

\* the label list the handler is to pass for options o
ExpectedLabels(o) ==
    IF o.Starred /\ o.Important THEN o.LabelIDs \o <<"STARRED", "IMPORTANT">>
    ELSE IF o.Starred THEN o.LabelIDs \o <<"STARRED">>
    ELSE IF o.Important THEN o.LabelIDs \o <<"IMPORTANT">>
    ELSE o.LabelIDs

\* C26: the label list passed to the label call is options.label_ids in
\* order, then STARRED when options.starred, then IMPORTANT when
\* options.important; after a successful send the handler goes on to the
\* label call exactly when that list is not empty.
C26_LabelList ==
    \A r \in Reqs :
        /\ calls[r].modify = 1 =>
              modifyReq[r].AddLabelIds = ExpectedLabels(payload[r].Options)
        /\ (sentMsg[r] # "" /\ pc[r] # "idle") =>
              (LabelCallStarted(r) <=> ExpectedLabels(payload[r].Options) # <<>>)

\* a label call with two label ids and both flags
C26_Witness ==
    \E r \in Reqs :
        /\ calls[r].modify = 1
        /\ modifyReq[r].AddLabelIds = <<"Label_2", "Label_1", "STARRED", "IMPORTANT">>

AuthError == ErrorResponse(StatusInternalServerError, "Auth Configuration Error")

\* C27: a call of initGmailService with DELEGATED_USER_EMAIL or
\* FUNCTION_IDENTITY_EMAIL empty, or whose client creation fails, ends the
\* request with 500, without BuildMime or send call, and leaves the global
\* handle unset; a call that finds the handle unset attempts the
\* initialisation; a call that finds it set creates nothing and goes on.
C27_InitFailure ==
    [][\A r \in Reqs :
          /\ (pc[r] = "init" /\ pc'[r] # "init" /\ gmailService = 0) =>
                /\ pc'[r] \in {"creating", "done"}
                /\ pc'[r] = "done" <=>
                      (env.delegatedUser = "" \/ env.functionSA = "")
          /\ (pc[r] \in {"init", "creating"} /\ pc'[r] = "done") =>
                /\ resp'[r] = AuthError
                /\ calls'[r].build = 0 /\ calls'[r].send = 0
                /\ gmailService = 0 /\ gmailService' = 0
                /\ services' = services
          /\ (pc[r] = "init" /\ pc'[r] # "init" /\ gmailService # 0) =>
                /\ pc'[r] = "build"
                /\ gmailService' = gmailService
                /\ services' = services
      ]_vars

\* the second request of a process fails in the client creation, the handle
\* being still unset
C27_Witness ==
    \E r \in Reqs :
        /\ client.quota = 0
        /\ Done(r) /\ resp[r] = AuthError
        /\ env.delegatedUser # "" /\ env.functionSA # ""
        /\ gmailService = 0

\* C28: a request has a 200 response only when it is over, exactly one send
\* call of it was issued and returned a message id, and the body is "sent"
\* with that id; no request issues more than one send call.
C28_SentOnlyAfterSend ==
    \A r \in Reqs :
        /\ calls[r].send <= 1
        /\ resp[r].code = StatusOK =>
              /\ Done(r)
              /\ calls[r].send = 1
              /\ sentMsg[r] \in MsgIds
              /\ resp[r].body = <<"sent", sentMsg[r]>>

\* a request whose send returned m2 is answered with "sent" and m2
C28_Witness ==
    \E r \in Reqs :
        /\ Done(r) /\ sentMsg[r] = "m2"
        /\ resp[r] = [code |-> StatusOK, body |-> <<"sent", "m2">>]

\* C29: every request that was received ends; a response status is written
\* in the step that ends it and in no other, and it is 400, 500, 502 or 200.
C29_Terminates ==
    /\ \A r \in Reqs : (pc[r] = "validate") ~> Done(r)
    /\ [](\A r \in Reqs :
            /\ Done(r) => resp[r].code \in {StatusBadRequest,
                                             StatusInternalServerError,
                                             StatusBadGateway, StatusOK}
            /\ (pc[r] \notin {"idle", "done"}) => resp[r] = NoResp)
    /\ [][\A r \in Reqs :
            (resp'[r] # resp[r] /\ resp'[r] # NoResp) =>
                (pc[r] \notin {"idle", "done"} /\ pc'[r] = "done")]_vars

\* a request is over with 200 after its signing, exchange, send and label
\* calls returned
C29_Witness ==
    \E r \in Reqs :
        /\ Done(r) /\ resp[r].code = StatusOK
        /\ calls[r].sign = 1 /\ calls[r].exch = 1
        /\ calls[r].send = 1 /\ calls[r].modify = 1

\* C30: a Token() call whose exchange is answered with status 200 and a JSON
\* body returns no error: the API call goes ahead with a credential that has
\* the answer's access token, empty when the body has none, and that expires
\* expires_in seconds from now, now when the body has none.
C30_LenientTokenResponse ==
    [][\A r \in Reqs :
          (pc[r] \in ExchPcs /\ calls'[r].exch = calls[r].exch + 1
             /\ lastExch'[svc[r]].answer.kind = "ok") =>
              LET x == lastExch'[svc[r]].answer IN
                /\ pc'[r] = PcCall(Phase(pc[r]))
                /\ fault'[r] = fault[r]
                /\ resp'[r] = NoResp
                /\ carried'[r].fresh
                /\ carried'[r].token[1].AccessToken = x.access_token
                /\ carried'[r].token[1].Expiry = now + x.expires_in
                /\ x.access_token = "" => carried'[r].token[1].AccessToken = ""
                /\ x.expires_in = 0 => carried'[r].token[1].Expiry = now
      ]_vars

\* the send call goes ahead with a credential without an access token
C30_Witness ==
    \E r \in Reqs :
        /\ pc[r] = "sendCall" /\ carried[r].fresh
        /\ carried[r].token[1].AccessToken = ""
        /\ fault[r] = NoFault

====
